---- MODULE Spec2Model ----
(***************************************************************************)
(* The spell casting model of mage-game: PaletteItem, Palette and the     *)
(* attribute trackers they read (src/mage_game/model/character.py and     *)
(* src/magegame/model/magic.py).                                           *)
(*                                                                         *)
(* Numbers.  The program computes with Python floats.  Here every number  *)
(* the program holds (attribute values, cooldowns, casting time, dt) is   *)
(* kept in fixed point, as the integer count of thousandths: the float    *)
(* 2.0 is the integer 2000.  Fixed(n) turns a whole number into that      *)
(* form.  With levels that divide the base values the arithmetic below is *)
(* exact.                                                                  *)
(***************************************************************************)
EXTENDS Integers, Sequences, FiniteSets, TLC

----------------------------------------------------------------------------
(* Bounds of the model *)

\* number of items put into the palette
NumItems == 2
\* COOLDOWN and CAST_TIME trackers of the spells start at a level in 1..MaxLevel
MaxLevel == 2
\* number of update_cooldowns / update_casting_time calls with dt > 0 in one
\* behaviour (a call with dt = 0 moves no timer and is not counted)
MaxTicks == 3

\* number of trigger_event() calls made on one tracker
MaxEvents == 72
\* number of enemies in the world
NumEnemies == 2

\* the enemies
Enemies == 1..NumEnemies
\* Enemy._hp of a new enemy
EnemyHp == 10

\* the frame times (milliseconds) handed to the two update operations
Dts == {0, 1, 2000}
\* the indexes handed to set_active_palette_item
Indexes == (0 - 1) .. NumItems

----------------------------------------------------------------------------
(* Fixed point *)

\* a whole number n as a count of thousandths
Fixed(n) == n * 1000

\* the float product x * k for a whole number k
TimesWhole(x, k) == x * k

----------------------------------------------------------------------------
(* magic.py: SpellAttribute, AttributeTracking, Projectile *)

\* the attribute kinds a Projectile tracks
TrackedAttributes ==
    {"SPEED", "RADIUS", "DISTANCE", "DAMAGE", "COOLDOWN", "CAST_TIME", "CRIT_CHANCE"}

\* SpellAttribute.base_value, in thousandths
base_value ==
    [a \in {"DAMAGE", "CRIT_CHANCE", "CRIT_DAMAGE", "COOLDOWN", "CAST_TIME",
            "DISTANCE", "RADIUS", "SPEED", "COUNT"} |->
        CASE a = "DAMAGE"      -> 1000
          [] a = "CRIT_CHANCE" -> 50
          [] a = "CRIT_DAMAGE" -> 250
          [] a = "COOLDOWN"    -> 2000
          [] a = "CAST_TIME"   -> 2000
          [] a = "DISTANCE"    -> 10000
          [] a = "RADIUS"      -> 100
          [] a = "SPEED"       -> 5000
          [] a = "COUNT"       -> 1000]

\* AttributeTracking._scale as the default Projectile sets it
scale_of ==
    [a \in TrackedAttributes |->
        IF a \in {"COOLDOWN", "CAST_TIME"} THEN "inverse" ELSE "logarithmic"]

\* math.log(level, 2) in thousandths, for the levels the model uses
Log2Fixed(level) ==
    CASE level = 1 -> 0
      [] level = 2 -> 1000
      [] level = 3 -> 1585
      [] level = 4 -> 2000
      [] OTHER     -> 2322

\* math.ceil on a fixed point number
CeilFixed(x) == ((x + 999) \div 1000) * 1000

\* AttributeTracking._post as the default Projectile sets it
post_of(a, x) == IF a = "DAMAGE" THEN CeilFixed(x) ELSE x

\* effective_value with the logarithmic scale lacking its "+ base" term
effective_value_no_base(a, level) ==
    IF scale_of[a] = "logarithmic"
    THEN post_of(a, (Log2Fixed(level) * base_value[a]) \div 1000)
    ELSE post_of(a, base_value[a] \div level)

\* effective_value with the inverse scale multiplying by the level
effective_value_inverse_grows(a, level) ==
    IF scale_of[a] = "logarithmic"
    THEN post_of(a, (Log2Fixed(level) * base_value[a]) \div 1000 + base_value[a])
    ELSE post_of(a, base_value[a] * level)

\* AttributeTracking.effective_value
effective_value(a, level) ==
    IF scale_of[a] = "logarithmic"
    THEN post_of(a, (Log2Fixed(level) * base_value[a]) \div 1000 + base_value[a])
    ELSE post_of(a, base_value[a] \div level)

\* Projectile.get_attribute: the spell is the map attribute -> tracker level
get_attribute(spell, a) == effective_value(a, spell[a])

\* AttributeTracking(attribute): level 1, no events
AttributeTracking(a) == [attribute |-> a, level |-> 1, events |-> 0]

\* int(math.log(x, 2)) for a whole number x >= 1
RECURSIVE IntLog2(_)
IntLog2(x) == IF x < 2 THEN 0 ELSE 1 + IntLog2(x \div 2)

\* 2 ** n
RECURSIVE Pow2(_)
Pow2(n) == IF n <= 0 THEN 1 ELSE 2 * Pow2(n - 1)

\* trigger_event rounding the logarithm up (math.ceil) instead of down
trigger_event_ceil(t) ==
    [t EXCEPT !.events = t.events + 1,
              !.level = LET x == ((t.events + 1) \div 5) + 2 IN
                        IF Pow2(IntLog2(x)) = x THEN IntLog2(x) ELSE IntLog2(x) + 1]

\* trigger_event with an offset of 1 instead of 2 under the logarithm
trigger_event_offset_one(t) ==
    [t EXCEPT !.events = t.events + 1,
              !.level = IntLog2(((t.events + 1) \div 5) + 1)]

\* trigger_event taking the events modulo 5 instead of dividing them by 5
trigger_event_modulo(t) ==
    [t EXCEPT !.events = t.events + 1,
              !.level = IntLog2(((t.events + 1) % 5) + 2)]

\* AttributeTracking.trigger_event
trigger_event(t) ==
    [t EXCEPT !.events = t.events + 1,
              !.level = IntLog2(((t.events + 1) \div 5) + 2)]

\* events_to_next_level squaring the next level (next_level ** 2) instead of
\* raising 2 to it
events_to_next_level_square(t) ==
    ((t.level + 1) * (t.level + 1) - 2) * 5 - t.events

\* events_to_next_level taking the threshold of the current level
events_to_next_level_current(t) ==
    (Pow2(t.level) - 2) * 5 - t.events

\* AttributeTracking.events_to_next_level
events_to_next_level(t) ==
    (Pow2(t.level + 1) - 2) * 5 - t.events

\* the variants of the SpellAttribute enumeration
SpellAttributes ==
    {"DAMAGE", "CRIT_CHANCE", "CRIT_DAMAGE", "COOLDOWN", "CAST_TIME",
     "DISTANCE", "RADIUS", "SPEED", "COUNT"}

\* Projectile._element when none is given
DefaultElement == "NONE"

\* Projectile(element) as an object: its element and its _attributes, one
\* fresh AttributeTracking for every kind the default factory lists
Projectile(element) ==
    [element |-> element,
     attributes |-> [a \in TrackedAttributes |-> AttributeTracking(a)]]

\* Python's None where a tracker is expected
None == [attribute |-> "None", level |-> 0, events |-> 0]

\* Projectile.get_tracking: self._attributes.get(attribute)
get_tracking(projectile, a) ==
    IF a \in DOMAIN projectile.attributes THEN projectile.attributes[a] ELSE None

\* the levels of a Projectile object's trackers: the spell as the palette
\* operations read it
SpellOf(projectile) ==
    [a \in TrackedAttributes |-> projectile.attributes[a].level]

\* Projectile(): every tracker at level 1
DefaultSpell == [a \in TrackedAttributes |-> 1]

\* the spells a palette can be built from: every tracker at level 1 but the
\* COOLDOWN and CAST_TIME trackers, which are at any level in 1..MaxLevel
Spells ==
    { [a \in TrackedAttributes |->
          IF a = "COOLDOWN" THEN cd ELSE IF a = "CAST_TIME" THEN ct ELSE 1] :
      cd \in 1..MaxLevel, ct \in 1..MaxLevel }

----------------------------------------------------------------------------
(* character.py: PaletteItem *)

\* PaletteItem(spell) starting with the cooldown of a spell just cast
PaletteItem_on_cooldown(spell) ==
    [spell |-> spell, cooldown |-> get_attribute(spell, "COOLDOWN")]

\* PaletteItem(spell): the cooldown starts at 0
PaletteItem(spell) == [spell |-> spell, cooldown |-> 0]

\* can_use with the comparison written as < instead of <=
can_use_strict(item) == item.cooldown < 0

\* PaletteItem.can_use
can_use(item) == item.cooldown <= 0

\* reset_cooldown converting the seconds of the attribute to milliseconds
reset_cooldown_ms(item) ==
    [item EXCEPT !.cooldown = TimesWhole(get_attribute(item.spell, "COOLDOWN"), 1000)]

\* PaletteItem.reset_cooldown
reset_cooldown(item) ==
    [item EXCEPT !.cooldown = get_attribute(item.spell, "COOLDOWN")]

----------------------------------------------------------------------------
(* character.py: Palette.  A palette p is the record of its three fields. *)

\* a list index that accepts 0 .. len-1 only
IndexValid_nonnegative(p) ==
    /\ p.current_item_index >= 0
    /\ p.current_item_index < Len(p.items)

\* Python's list index: -len .. len-1 are valid, anything else raises IndexError
IndexValid(p) ==
    /\ p.current_item_index >= 0 - Len(p.items)
    /\ p.current_item_index < Len(p.items)

\* the position (1-based) that self._items[self._current_item_index] reads
ActivePos(p) ==
    IF p.current_item_index >= 0
    THEN p.current_item_index + 1
    ELSE Len(p.items) + p.current_item_index + 1

\* get_active_item returning the first item whatever the index
get_active_item_first(p) == p.items[1]

\* Palette.get_active_item
get_active_item(p) == p.items[ActivePos(p)]

\* Palette.get_active_item_index
get_active_item_index(p) == p.current_item_index

\* update_cooldowns leaving the loop after the first item
update_cooldowns_first_only(p, dt) ==
    [p EXCEPT !.items =
        [i \in 1..Len(p.items) |->
            IF i > 1
            THEN p.items[i]
            ELSE IF p.items[i].cooldown - dt <= 0
                 THEN [p.items[i] EXCEPT !.cooldown = 0]
                 ELSE [p.items[i] EXCEPT !.cooldown = p.items[i].cooldown - dt]]]

\* update_cooldowns ticking the active item only
update_cooldowns_active_only(p, dt) ==
    [p EXCEPT !.items =
        [i \in 1..Len(p.items) |->
            IF i # ActivePos(p)
            THEN p.items[i]
            ELSE IF p.items[i].cooldown - dt <= 0
                 THEN [p.items[i] EXCEPT !.cooldown = 0]
                 ELSE [p.items[i] EXCEPT !.cooldown = p.items[i].cooldown - dt]]]

\* update_cooldowns without the clamp to 0
update_cooldowns_no_clamp(p, dt) ==
    [p EXCEPT !.items =
        [i \in 1..Len(p.items) |->
            [p.items[i] EXCEPT !.cooldown = p.items[i].cooldown - dt]]]

\* Palette.update_cooldowns
update_cooldowns(p, dt) ==
    [p EXCEPT !.items =
        [i \in 1..Len(p.items) |->
            IF p.items[i].cooldown - dt <= 0
            THEN [p.items[i] EXCEPT !.cooldown = 0]
            ELSE [p.items[i] EXCEPT !.cooldown = p.items[i].cooldown - dt]]]

\* can_cast_active_spell without the test of the casting time
can_cast_active_spell_item_only(p) ==
    can_use(get_active_item(p))

\* Palette.can_cast_active_spell
can_cast_active_spell(p) ==
    can_use(get_active_item(p)) /\ p.casting_time <= 0

\* Palette.reset_active_spell_cooldown
reset_active_spell_cooldown(p) ==
    [p EXCEPT !.items[ActivePos(p)] = reset_cooldown(get_active_item(p))]

\* set_active_palette_item cancelling the cast in progress
set_active_palette_item_cancel(p, index) ==
    [p EXCEPT !.current_item_index = index, !.casting_time = 0]

\* Palette.set_active_palette_item
set_active_palette_item(p, index) ==
    [p EXCEPT !.current_item_index = index]

\* reset_casting_time reading the COOLDOWN attribute instead of CAST_TIME
reset_casting_time_from_cooldown(p) ==
    [p EXCEPT !.casting_time =
        TimesWhole(get_attribute(get_active_item(p).spell, "COOLDOWN"), 1000)]

\* Palette.reset_casting_time
reset_casting_time(p) ==
    [p EXCEPT !.casting_time =
        TimesWhole(get_attribute(get_active_item(p).spell, "CAST_TIME"), 1000)]

\* update_casting_time with the clamp taken on >= 0 instead of <= 0
update_casting_time_clear(p, dt) ==
    IF p.casting_time - dt >= 0
    THEN [p EXCEPT !.casting_time = 0]
    ELSE [p EXCEPT !.casting_time = p.casting_time - dt]

\* update_casting_time counting the time up instead of down
update_casting_time_count_up(p, dt) ==
    [p EXCEPT !.casting_time = p.casting_time + dt]

\* update_casting_time comparing instead of assigning in the clamp
\* (self._casting_time == 0)
update_casting_time_no_clamp(p, dt) ==
    [p EXCEPT !.casting_time = p.casting_time - dt]

\* Palette.update_casting_time
update_casting_time(p, dt) ==
    IF p.casting_time - dt <= 0
    THEN [p EXCEPT !.casting_time = 0]
    ELSE [p EXCEPT !.casting_time = p.casting_time - dt]

\* cast_active_spell resetting the cooldown before it tests whether it may cast
cast_active_spell_reset_first(p) ==
    IF can_cast_active_spell(p)
    THEN [pal |-> reset_casting_time(reset_active_spell_cooldown(p)), ret |-> TRUE]
    ELSE [pal |-> reset_active_spell_cooldown(p), ret |-> FALSE]

\* cast_active_spell returning True without resetting either timer
cast_active_spell_no_reset(p) ==
    IF can_cast_active_spell(p)
    THEN [pal |-> p, ret |-> TRUE]
    ELSE [pal |-> p, ret |-> FALSE]

\* Palette.cast_active_spell: the palette afterwards and the value returned
cast_active_spell(p) ==
    IF can_cast_active_spell(p)
    THEN [pal |-> reset_casting_time(reset_active_spell_cooldown(p)), ret |-> TRUE]
    ELSE [pal |-> p, ret |-> FALSE]

----------------------------------------------------------------------------
(* character.py: Character.  The Character's palette is the record p. *)

\* the elements of the spells new_character() puts in the spell book
SpellBookElements == <<"FIRE", "WATER", "EARTH", "AIR", "LIGHT", "DARK">>

\* the number of spell-book entries new_character() puts in the palette
PaletteSize == 4

\* new_character building the palette items from copies of the spells
new_character_copies ==
    LET n == Len(SpellBookElements) IN
    [projectiles |-> [id \in 1..(n + PaletteSize) |->
                         Projectile(SpellBookElements[IF id > n THEN id - n ELSE id])],
     spell_book  |-> [j \in 1..n |-> j],
     item_spell  |-> [i \in 1..PaletteSize |-> n + i]]

\* Character.new_character: the Projectile objects made, the spell book and
\* the Projectile each palette item refers to
new_character ==
    LET n == Len(SpellBookElements) IN
    [projectiles |-> [id \in 1..n |-> Projectile(SpellBookElements[id])],
     spell_book  |-> [j \in 1..n |-> j],
     item_spell  |-> [i \in 1..PaletteSize |-> i]]

\* Character.cast casting without asking the palette whether it may
cast_unconditional(p) ==
    [pal |-> reset_casting_time(reset_active_spell_cooldown(p)), ret |-> TRUE]

\* Character.cast: a wrapper of the palette's cast_active_spell
cast(p) == cast_active_spell(p)

\* Character.select_palette_item
select_palette_item(p, selection) == set_active_palette_item(p, selection)

----------------------------------------------------------------------------
(* State *)

VARIABLES
    items,                \* Palette._items: sequence of [spell, cooldown]
    current_item_index,   \* Palette._current_item_index
    casting_time,         \* Palette._casting_time
    op,                   \* the operation called last
    arg,                  \* the number handed to it (0 when it takes none)
    result,               \* what it did: "True", "False", "None" or "IndexError"
    ticks,                \* update calls with dt > 0 made so far
    cast_slot,            \* position of the item cast last (0: none yet)
    cast_elapsed,         \* dt handed to update_casting_time since the last
                          \* successful cast (-1: no cast yet)
    cd_elapsed,           \* per item: dt handed to update_cooldowns since the
                          \* last successful cast of that item (-1: no cast yet)
    tracker,              \* an AttributeTracking: [attribute, level, events]
    sprites_hit,          \* ProjectileSprite.sprites_hit of the attack in flight
    enemy_hp,             \* Enemy._hp of every enemy
    hit_log,              \* the enemy.hit() calls of the last collision pass:
                          \* sequence of [enemy, damage, events]
    attack_hits,          \* per enemy: the enemy.hit() calls the attack in
                          \* flight has made on it
    projectiles,          \* the Projectile objects: id -> [element, attributes]
    spell_book,           \* Character._spell_book: sequence of Projectile ids
    item_spell,           \* PaletteItem._spell of every palette item: the id
                          \* of the Projectile object it refers to
    state_stack,          \* StateMachine.state_stack of the GameEngine
    running,              \* GameEngine.running
    posted,               \* the events the last call handed to
                          \* event_manager.post, in order
    attack_sprites        \* GraphicalView.attack_sprites: the source
                          \* Projectile ids of the ProjectileSprites added

palette_vars == <<items, current_item_index, casting_time>>
history_vars == <<ticks, cast_slot, cast_elapsed, cd_elapsed>>
tracking_vars == <<tracker, sprites_hit, enemy_hp, hit_log, attack_hits>>
book_vars == <<projectiles, spell_book, item_spell>>
engine_vars == <<state_stack, running, posted, attack_sprites>>
vars == <<items, current_item_index, casting_time, op, arg, result,
          ticks, cast_slot, cast_elapsed, cd_elapsed,
          tracker, sprites_hit, enemy_hp, hit_log, attack_hits,
          projectiles, spell_book, item_spell,
          state_stack, running, posted, attack_sprites>>

\* the Palette object as one record
Pal == [items |-> items, current_item_index |-> current_item_index,
        casting_time |-> casting_time]

\* write a palette record back into the fields
SetPal(p) ==
    /\ items' = p.items
    /\ current_item_index' = p.current_item_index
    /\ casting_time' = p.casting_time

\* GameEngine(): not running, no state on the stack, nothing posted, no
\* sprite made
EngineAtRest ==
    /\ state_stack = <<>>
    /\ running = FALSE
    /\ posted = <<>>
    /\ attack_sprites = {}

\* no Character with a spell book has been made: the palette's items hold
\* their spells by value
BookAtRest ==
    /\ projectiles = <<>>
    /\ spell_book = <<>>
    /\ item_spell = <<>>

\* the trackers and sprites as the palette operations find and leave them: a
\* fresh DAMAGE tracker, no attack in flight, every enemy at full health
TrackingAtRest ==
    /\ tracker = AttributeTracking("DAMAGE")
    /\ sprites_hit = {}
    /\ enemy_hp = [e \in Enemies |-> Fixed(EnemyHp)]
    /\ hit_log = <<>>
    /\ attack_hits = [e \in Enemies |-> 0]
    /\ BookAtRest
    /\ EngineAtRest

\* the palettes a behaviour starts from: NumItems fresh items, all of them
\* default spells but at most one, which is any spell of Spells
Palettes ==
    { [i \in 1..NumItems |-> PaletteItem(IF i = k THEN s ELSE DefaultSpell)] :
      k \in 1..NumItems, s \in Spells }

\* Palette() followed by get_items().extend([...]) of NumItems fresh items
Init ==
    /\ items \in Palettes
    /\ current_item_index = 0
    /\ casting_time = 0
    /\ op = "init"
    /\ arg = 0
    /\ result = "None"
    /\ ticks = 0
    /\ cast_slot = 0
    /\ cast_elapsed = 0 - 1
    /\ cd_elapsed = [i \in 1..NumItems |-> 0 - 1]
    /\ TrackingAtRest

\* a Python bool as the string the model records for a call's outcome
Bool(b) == IF b THEN "True" ELSE "False"

\* the count of update calls after one with frame time dt
Tick(dt) == IF dt > 0 THEN ticks + 1 ELSE ticks

\* an elapsed time after dt more has been handed in (-1 stays: nothing to time)
Elapse(e, dt) == IF e < 0 THEN e ELSE e + dt

----------------------------------------------------------------------------
(* Operations *)

\* a call of can_cast_active_spell()
CanCastActiveSpell ==
    /\ op' = "can_cast_active_spell"
    /\ arg' = 0
    /\ UNCHANGED book_vars
    /\ UNCHANGED engine_vars
    /\ result' = IF IndexValid(Pal) THEN Bool(can_cast_active_spell(Pal)) ELSE "IndexError"
    /\ UNCHANGED palette_vars
    /\ UNCHANGED history_vars
    /\ UNCHANGED tracking_vars

\* a call of cast_active_spell()
CastActiveSpell ==
    /\ op' = "cast_active_spell"
    /\ arg' = 0
    /\ UNCHANGED book_vars
    /\ UNCHANGED engine_vars
    /\ UNCHANGED tracking_vars
    /\ IF IndexValid(Pal)
       THEN LET r == cast_active_spell(Pal) IN
            /\ SetPal(r.pal)
            /\ result' = Bool(r.ret)
            /\ IF r.ret
               THEN /\ cast_slot' = ActivePos(Pal)
                    /\ cast_elapsed' = 0
                    /\ cd_elapsed' = [cd_elapsed EXCEPT ![ActivePos(Pal)] = 0]
                    /\ UNCHANGED ticks
               ELSE UNCHANGED history_vars
       ELSE /\ result' = "IndexError"
            /\ UNCHANGED palette_vars
            /\ UNCHANGED history_vars

\* a call of set_active_palette_item(index)
SetActivePaletteItem ==
    \E index \in Indexes :
        /\ op' = "set_active_palette_item"
        /\ arg' = index
        /\ UNCHANGED book_vars
        /\ UNCHANGED engine_vars
        /\ UNCHANGED tracking_vars
        /\ result' = "None"
        /\ SetPal(set_active_palette_item(Pal, index))
        /\ UNCHANGED history_vars

\* a call of update_cooldowns(dt)
UpdateCooldowns ==
    \E dt \in Dts :
        /\ ticks < MaxTicks
        /\ op' = "update_cooldowns"
        /\ arg' = dt
        /\ UNCHANGED book_vars
        /\ UNCHANGED engine_vars
        /\ UNCHANGED tracking_vars
        /\ result' = "None"
        /\ SetPal(update_cooldowns(Pal, Fixed(dt)))
        /\ ticks' = Tick(dt)
        /\ cd_elapsed' = [i \in 1..NumItems |-> Elapse(cd_elapsed[i], Fixed(dt))]
        /\ UNCHANGED <<cast_slot, cast_elapsed>>

\* a call of update_casting_time(dt)
UpdateCastingTime ==
    \E dt \in Dts :
        /\ ticks < MaxTicks
        /\ op' = "update_casting_time"
        /\ arg' = dt
        /\ UNCHANGED book_vars
        /\ UNCHANGED engine_vars
        /\ UNCHANGED tracking_vars
        /\ result' = "None"
        /\ SetPal(update_casting_time(Pal, Fixed(dt)))
        /\ ticks' = Tick(dt)
        /\ cast_elapsed' = Elapse(cast_elapsed, Fixed(dt))
        /\ UNCHANGED <<cast_slot, cd_elapsed>>

Next ==
    \/ CanCastActiveSpell
    \/ CastActiveSpell
    \/ SetActivePaletteItem
    \/ UpdateCooldowns
    \/ UpdateCastingTime

Spec == Init /\ [][Next]_vars

----------------------------------------------------------------------------
(* The Character and its palette.  Character() has a palette without items; *)
(* new_character() fills it.                                                 *)

\* Character(), or Character.new_character() with NumItems palette items
CharacterInit ==
    /\ items \in Palettes \cup {<<>>}
    /\ current_item_index = 0
    /\ casting_time = 0
    /\ op = "init"
    /\ arg = 0
    /\ result = "None"
    /\ ticks = 0
    /\ cast_slot = 0
    /\ cast_elapsed = 0 - 1
    /\ cd_elapsed = [i \in 1..NumItems |-> 0 - 1]
    /\ TrackingAtRest

\* a call of Character.cast()
CharacterCast ==
    /\ op' = "cast"
    /\ arg' = 0
    /\ UNCHANGED book_vars
    /\ UNCHANGED engine_vars
    /\ UNCHANGED tracking_vars
    /\ IF IndexValid(Pal)
       THEN LET r == cast(Pal) IN
            /\ SetPal(r.pal)
            /\ result' = Bool(r.ret)
            /\ IF r.ret
               THEN /\ cast_slot' = ActivePos(Pal)
                    /\ cast_elapsed' = 0
                    /\ cd_elapsed' = [cd_elapsed EXCEPT ![ActivePos(Pal)] = 0]
                    /\ UNCHANGED ticks
               ELSE UNCHANGED history_vars
       ELSE /\ result' = "IndexError"
            /\ UNCHANGED palette_vars
            /\ UNCHANGED history_vars

\* a call of Character.select_palette_item(selection)
SelectPaletteItem ==
    \E selection \in Indexes :
        /\ op' = "select_palette_item"
        /\ arg' = selection
        /\ UNCHANGED book_vars
        /\ UNCHANGED engine_vars
        /\ UNCHANGED tracking_vars
        /\ result' = "None"
        /\ SetPal(select_palette_item(Pal, selection))
        /\ UNCHANGED history_vars

CharacterNext ==
    \/ CharacterCast
    \/ SelectPaletteItem
    \/ CanCastActiveSpell
    \/ CastActiveSpell
    \/ SetActivePaletteItem
    \/ UpdateCastingTime

CharacterSpec == CharacterInit /\ [][CharacterNext]_vars

----------------------------------------------------------------------------
(* One AttributeTracking of a spell and the events it is handed.  The       *)
(* palette is a new character's and is left alone.                          *)

\* AttributeTracking(attribute) for any attribute a Projectile tracks
TrackingInit ==
    /\ items = [i \in 1..NumItems |-> PaletteItem(DefaultSpell)]
    /\ current_item_index = 0
    /\ casting_time = 0
    /\ op = "init"
    /\ arg = 0
    /\ result = "None"
    /\ ticks = 0
    /\ cast_slot = 0
    /\ cast_elapsed = 0 - 1
    /\ cd_elapsed = [i \in 1..NumItems |-> 0 - 1]
    /\ tracker \in {AttributeTracking(a) : a \in TrackedAttributes}
    /\ sprites_hit = {}
    /\ enemy_hp = [e \in Enemies |-> Fixed(EnemyHp)]
    /\ hit_log = <<>>
    /\ attack_hits = [e \in Enemies |-> 0]
    /\ BookAtRest
    /\ EngineAtRest

\* a call of trigger_event() on the tracker
TriggerEvent ==
    /\ tracker.events < MaxEvents
    /\ op' = "trigger_event"
    /\ arg' = 0
    /\ UNCHANGED book_vars
    /\ UNCHANGED engine_vars
    /\ result' = "None"
    /\ tracker' = trigger_event(tracker)
    /\ UNCHANGED <<sprites_hit, enemy_hp, hit_log, attack_hits>>
    /\ UNCHANGED palette_vars
    /\ UNCHANGED history_vars

TrackingNext == TriggerEvent

TrackingSpec == TrackingInit /\ [][TrackingNext]_vars

----------------------------------------------------------------------------
(* sprites.py: a ProjectileSprite in flight, the DAMAGE tracker of its      *)
(* spell and the enemies it can collide with.  A collision state st is the  *)
(* record [tracker, sprites_hit, enemy_hp, hit_log].                        *)

\* the event counts the DAMAGE tracker has when the first attack is launched
StartEvents == {0, 9, 29, 69}

\* the tracker of attribute a as its e-th trigger_event() call leaves it
\* (AttributeTracking(a) itself for e = 0)
TrackingAfter(a, e) ==
    [attribute |-> a, level |-> IntLog2((e \div 5) + 2), events |-> e]

\* EnemySprite.hit: the health left (at or below 0 the sprite is killed)
hit(hp, damage) == hp - damage

\* an enemy sprite is in the enemy group until hit() kills it
Alive(e) == enemy_hp[e] > 0

\* the lists spritecollide can return: distinct sprites of the group S
RECURSIVE Collisions(_)
Collisions(S) ==
    {<<>>} \cup UNION { { <<e>> \o rest : rest \in Collisions(S \ {e}) } : e \in S }

\* the body of the loop reading the damage before it triggers the event
collide_damage_first(st, enemy) ==
    IF enemy \in st.sprites_hit
    THEN st
    ELSE LET damage == trigger_event(st.tracker)
             value == effective_value("DAMAGE", st.tracker.level)
         IN  [tracker     |-> damage,
              sprites_hit |-> st.sprites_hit \cup {enemy},
              enemy_hp    |-> [st.enemy_hp EXCEPT ![enemy] = hit(@, value)],
              hit_log     |-> Append(st.hit_log,
                                     [enemy |-> enemy, damage |-> value,
                                      events |-> damage.events,
                                      level |-> damage.level])]

\* the body of the loop without the test of sprites_hit: a hit on every frame
collide_every_frame(st, enemy) ==
    LET damage == trigger_event(st.tracker)
        value == effective_value("DAMAGE", damage.level)
    IN  [tracker     |-> damage,
         sprites_hit |-> st.sprites_hit \cup {enemy},
         enemy_hp    |-> [st.enemy_hp EXCEPT ![enemy] = hit(@, value)],
         hit_log     |-> Append(st.hit_log,
                                [enemy |-> enemy, damage |-> value,
                                 events |-> damage.events,
                                 level |-> damage.level])]

\* the body of the loop of _compute_collisions for one colliding enemy
collide(st, enemy) ==
    IF enemy \in st.sprites_hit
    THEN st
    ELSE LET damage == trigger_event(st.tracker)
             value == effective_value("DAMAGE", damage.level)
         IN  [tracker     |-> damage,
              sprites_hit |-> st.sprites_hit \cup {enemy},
              enemy_hp    |-> [st.enemy_hp EXCEPT ![enemy] = hit(@, value)],
              hit_log     |-> Append(st.hit_log,
                                     [enemy |-> enemy, damage |-> value,
                                      events |-> damage.events,
                                      level |-> damage.level])]

\* ProjectileSprite._compute_collisions over the list enemies
RECURSIVE compute_collisions(_, _)
compute_collisions(st, enemies) ==
    IF enemies = <<>>
    THEN st
    ELSE compute_collisions(collide(st, Head(enemies)), Tail(enemies))

\* a new game's enemies, a new character's palette and a spell whose DAMAGE
\* tracker has seen one of StartEvents events
HitInit ==
    /\ items = [i \in 1..NumItems |-> PaletteItem(DefaultSpell)]
    /\ current_item_index = 0
    /\ casting_time = 0
    /\ op = "init"
    /\ arg = 0
    /\ result = "None"
    /\ ticks = 0
    /\ cast_slot = 0
    /\ cast_elapsed = 0 - 1
    /\ cd_elapsed = [i \in 1..NumItems |-> 0 - 1]
    /\ tracker \in {TrackingAfter("DAMAGE", e) : e \in StartEvents}
    /\ sprites_hit = {}
    /\ enemy_hp = [e \in Enemies |-> Fixed(EnemyHp)]
    /\ hit_log = <<>>
    /\ attack_hits = [e \in Enemies |-> 0]
    /\ BookAtRest
    /\ EngineAtRest

\* ProjectileSprite(...): a new attack has hit nothing yet
NewProjectileSprite ==
    /\ op' = "ProjectileSprite"
    /\ arg' = 0
    /\ UNCHANGED book_vars
    /\ UNCHANGED engine_vars
    /\ result' = "None"
    /\ sprites_hit' = {}
    /\ hit_log' = <<>>
    /\ attack_hits' = [e \in Enemies |-> 0]
    /\ UNCHANGED <<tracker, enemy_hp>>
    /\ UNCHANGED palette_vars
    /\ UNCHANGED history_vars

\* a frame of the flight: _compute_collisions() with the enemies the
\* projectile overlaps
ComputeCollisions ==
    \E enemies \in Collisions({e \in Enemies : Alive(e)}) :
        LET st == compute_collisions(
                      [tracker |-> tracker, sprites_hit |-> sprites_hit,
                       enemy_hp |-> enemy_hp, hit_log |-> <<>>], enemies)
        IN  /\ op' = "compute_collisions"
            /\ arg' = Len(enemies)
            /\ UNCHANGED book_vars
            /\ UNCHANGED engine_vars
            /\ result' = "None"
            /\ tracker' = st.tracker
            /\ sprites_hit' = st.sprites_hit
            /\ enemy_hp' = st.enemy_hp
            /\ hit_log' = st.hit_log
            /\ attack_hits' =
                 [e \in Enemies |->
                    attack_hits[e] +
                    Cardinality({i \in 1..Len(st.hit_log) : st.hit_log[i].enemy = e})]
            /\ UNCHANGED palette_vars
            /\ UNCHANGED history_vars

HitNext ==
    \/ NewProjectileSprite
    \/ ComputeCollisions

HitSpec == HitInit /\ [][HitNext]_vars

----------------------------------------------------------------------------
(* A new character: the Projectile objects of its spell book and the       *)
(* palette items that refer to them, and the hits its attacks register.     *)

\* the most hits one spell registers
MaxHits == 2

\* the event of a hit shared by the DAMAGE trackers of all Projectiles
trigger_damage_event_shared(projs, id) ==
    [k \in DOMAIN projs |->
        [projs[k] EXCEPT !.attributes["DAMAGE"] = trigger_event(@)]]

\* a hit handing the event to the CAST_TIME tracker instead of DAMAGE
trigger_damage_event_cast_time(projs, id) ==
    [projs EXCEPT ![id].attributes["CAST_TIME"] = trigger_event(@)]

\* self.source.get_tracking(SpellAttribute.DAMAGE).trigger_event() for the
\* Projectile object id
trigger_damage_event(projs, id) ==
    [projs EXCEPT ![id].attributes["DAMAGE"] = trigger_event(@)]

\* Character.new_character()
BookInit ==
    /\ projectiles = new_character.projectiles
    /\ spell_book = new_character.spell_book
    /\ item_spell = new_character.item_spell
    /\ items = [i \in 1..Len(new_character.item_spell) |->
                  PaletteItem(SpellOf(new_character.projectiles[new_character.item_spell[i]]))]
    /\ current_item_index = 0
    /\ casting_time = 0
    /\ op = "init"
    /\ arg = 0
    /\ result = "None"
    /\ ticks = 0
    /\ cast_slot = 0
    /\ cast_elapsed = 0 - 1
    /\ cd_elapsed = [i \in 1..NumItems |-> 0 - 1]
    /\ tracker = AttributeTracking("DAMAGE")
    /\ sprites_hit = {}
    /\ enemy_hp = [e \in Enemies |-> Fixed(EnemyHp)]
    /\ hit_log = <<>>
    /\ attack_hits = [e \in Enemies |-> 0]
    /\ EngineAtRest

\* a projectile launched from palette slot index hits an enemy: the source of
\* the sprite is that item's spell, and its DAMAGE tracker is handed the event
HitWithPaletteSpell ==
    \E index \in 0..(Len(items) - 1) :
        /\ projectiles[item_spell[index + 1]].attributes["DAMAGE"].events < MaxHits
        /\ op' = "hit"
        /\ arg' = index
        /\ result' = "None"
        /\ projectiles' = trigger_damage_event(projectiles, item_spell[index + 1])
        /\ items' = [i \in 1..Len(items) |->
                       [items[i] EXCEPT !.spell = SpellOf(projectiles'[item_spell[i]])]]
        /\ UNCHANGED <<spell_book, item_spell>>
        /\ UNCHANGED engine_vars
        /\ UNCHANGED <<current_item_index, casting_time>>
        /\ UNCHANGED history_vars
        /\ UNCHANGED tracking_vars

BookNext == HitWithPaletteSpell

BookSpec == BookInit /\ [][BookNext]_vars

----------------------------------------------------------------------------
(* state.py: GameState, StateMachine and GameEngine.  A state is written   *)
(* by its name and Python's None, True and False by theirs.                *)

\* the most states the stack holds
MaxStack == 2

\* the members of GameState
GameState == {"STATE_INTRO", "STATE_MENU", "STATE_HELP", "STATE_ABOUT", "STATE_PLAY"}

\* StateMachine.peek() answering the oldest state instead of the newest
peek_first(stack) ==
    IF stack = <<>> THEN "None" ELSE stack[1]

\* StateMachine.peek(): state_stack[-1], or None on the IndexError of an
\* empty stack
peek(stack) ==
    IF stack = <<>> THEN "None" ELSE stack[Len(stack)]

\* StateMachine.pop() answering the state it removed
pop_removed_state(stack) ==
    IF stack = <<>>
    THEN [stack |-> stack, ret |-> "None"]
    ELSE [stack |-> SubSeq(stack, 1, Len(stack) - 1), ret |-> stack[Len(stack)]]

\* StateMachine.pop(): list.pop() and then len(self.state_stack) > 0, or None
\* on the IndexError of an empty stack
pop(stack) ==
    IF stack = <<>>
    THEN [stack |-> stack, ret |-> "None"]
    ELSE [stack |-> SubSeq(stack, 1, Len(stack) - 1),
          ret |-> Bool(Len(stack) - 1 > 0)]

\* StateMachine.push(state): append and answer the state
push(stack, state) ==
    [stack |-> Append(stack, state), ret |-> state]

\* Python's "not value" for the values pop() answers
Falsy(ret) == ret \in {"None", "False"}

\* GameEngine.notify(event) for a StateChangeEvent carrying state (None asks
\* for a pop): the stack afterwards and the events posted
notify_state_change(stack, state) ==
    IF state = "None"
    THEN LET popped == pop(stack)
         IN  [stack |-> popped.stack,
              posted |-> IF Falsy(popped.ret) THEN <<"QuitEvent">> ELSE <<>>]
    ELSE [stack |-> push(stack, state).stack, posted |-> <<>>]

\* GameEngine(): a fresh StateMachine, not running
EngineInit ==
    /\ items = <<>>
    /\ current_item_index = 0
    /\ casting_time = 0
    /\ op = "init"
    /\ arg = "None"
    /\ result = "None"
    /\ ticks = 0
    /\ cast_slot = 0
    /\ cast_elapsed = 0 - 1
    /\ cd_elapsed = [i \in 1..NumItems |-> 0 - 1]
    /\ tracker = AttributeTracking("DAMAGE")
    /\ sprites_hit = {}
    /\ enemy_hp = [e \in Enemies |-> Fixed(EnemyHp)]
    /\ hit_log = <<>>
    /\ attack_hits = [e \in Enemies |-> 0]
    /\ BookAtRest
    /\ EngineAtRest

\* what a call on the engine leaves alone
EngineFrame ==
    /\ attack_sprites' = attack_sprites
    /\ UNCHANGED book_vars
    /\ UNCHANGED palette_vars
    /\ UNCHANGED history_vars
    /\ UNCHANGED tracking_vars

\* a call of state.push(state)
Push ==
    \E state \in GameState :
        /\ Len(state_stack) < MaxStack
        /\ op' = "push"
        /\ arg' = state
        /\ state_stack' = push(state_stack, state).stack
        /\ result' = push(state_stack, state).ret
        /\ posted' = <<>>
        /\ running' = running
        /\ EngineFrame

\* a call of state.pop()
Pop ==
    /\ op' = "pop"
    /\ arg' = "None"
    /\ state_stack' = pop(state_stack).stack
    /\ result' = pop(state_stack).ret
    /\ posted' = <<>>
    /\ running' = running
    /\ EngineFrame

\* a call of state.peek()
Peek ==
    /\ op' = "peek"
    /\ arg' = "None"
    /\ state_stack' = state_stack
    /\ result' = peek(state_stack)
    /\ posted' = <<>>
    /\ running' = running
    /\ EngineFrame

\* GameEngine.run() up to its loop: running = True, InitializeEvent posted,
\* STATE_INTRO pushed
Run ==
    /\ op = "init"
    /\ op' = "run"
    /\ arg' = "None"
    /\ running' = TRUE
    /\ posted' = <<"InitializeEvent">>
    /\ state_stack' = push(state_stack, "STATE_INTRO").stack
    /\ result' = "None"
    /\ EngineFrame

\* one turn of the loop of run(): while self.running, a TickEvent is posted
RunLoop ==
    /\ running
    /\ op' = "run_loop"
    /\ arg' = "None"
    /\ posted' = <<"TickEvent">>
    /\ UNCHANGED <<state_stack, running>>
    /\ result' = "None"
    /\ EngineFrame

\* notify(QuitEvent())
NotifyQuitEvent ==
    /\ op' = "notify_QuitEvent"
    /\ arg' = "None"
    /\ running' = FALSE
    /\ posted' = <<>>
    /\ state_stack' = state_stack
    /\ result' = "None"
    /\ EngineFrame

\* notify(StateChangeEvent(state)); state None asks for a pop
NotifyStateChangeEvent ==
    \E state \in GameState \cup {"None"} :
        /\ state # "None" => Len(state_stack) < MaxStack
        /\ op' = "notify_StateChangeEvent"
        /\ arg' = state
        /\ state_stack' = notify_state_change(state_stack, state).stack
        /\ posted' = notify_state_change(state_stack, state).posted
        /\ running' = running
        /\ result' = "None"
        /\ EngineFrame

\* notify(event) for any other event, a TickEvent say: neither branch is taken
NotifyOtherEvent ==
    /\ op' = "notify_TickEvent"
    /\ arg' = "None"
    /\ posted' = <<>>
    /\ UNCHANGED <<state_stack, running>>
    /\ result' = "None"
    /\ EngineFrame

EngineNext ==
    \/ Push
    \/ Pop
    \/ Peek
    \/ Run
    \/ RunLoop
    \/ NotifyQuitEvent
    \/ NotifyStateChangeEvent
    \/ NotifyOtherEvent

EngineSpec == EngineInit /\ [][EngineNext]_vars

----------------------------------------------------------------------------
(* model.py: the single-file revision of the model, where it differs from  *)
(* the package: AttributeTracking levels and the casting-time clamp.       *)

\* model.py AttributeTracking.trigger_event:
\* math.ceil(math.log((self._events // 5) + 2, 2))
model_py_trigger_event(t) ==
    [t EXCEPT !.events = t.events + 1,
              !.level = LET x == ((t.events + 1) \div 5) + 2 IN
                        IF Pow2(IntLog2(x)) = x THEN IntLog2(x) ELSE IntLog2(x) + 1]

\* model.py AttributeTracking.events_to_next_level:
\* ((next_level ** 2) - 2) * 5 - self._events
model_py_events_to_next_level(t) ==
    ((t.level + 1) * (t.level + 1) - 2) * 5 - t.events

\* model.py Palette.reset_casting_time: CAST_TIME * 1000
model_py_reset_casting_time(p) ==
    [p EXCEPT !.casting_time =
        TimesWhole(get_attribute(get_active_item(p).spell, "CAST_TIME"), 1000)]

\* model.py Palette.update_casting_time: the subtraction, and a clamp whose
\* body is the comparison self._casting_time == 0, which writes nothing
model_py_update_casting_time(p, dt) ==
    [p EXCEPT !.casting_time = p.casting_time - dt]

\* a Palette of default items and a fresh tracker
ModelPyInit ==
    /\ items = [i \in 1..NumItems |-> PaletteItem(DefaultSpell)]
    /\ current_item_index = 0
    /\ casting_time = 0
    /\ op = "init"
    /\ arg = 0
    /\ result = "None"
    /\ ticks = 0
    /\ cast_slot = 0
    /\ cast_elapsed = 0 - 1
    /\ cd_elapsed = [i \in 1..NumItems |-> 0 - 1]
    /\ tracker = AttributeTracking("DAMAGE")
    /\ sprites_hit = {}
    /\ enemy_hp = [e \in Enemies |-> Fixed(EnemyHp)]
    /\ hit_log = <<>>
    /\ attack_hits = [e \in Enemies |-> 0]
    /\ BookAtRest
    /\ EngineAtRest

\* a call of trigger_event() on the tracker
ModelPyTriggerEvent ==
    /\ tracker.events < MaxEvents
    /\ op' = "trigger_event"
    /\ arg' = 0
    /\ result' = "None"
    /\ tracker' = model_py_trigger_event(tracker)
    /\ UNCHANGED <<sprites_hit, enemy_hp, hit_log, attack_hits>>
    /\ UNCHANGED book_vars
    /\ UNCHANGED engine_vars
    /\ UNCHANGED palette_vars
    /\ UNCHANGED history_vars

\* a call of reset_casting_time()
ModelPyResetCastingTime ==
    /\ op' = "reset_casting_time"
    /\ arg' = 0
    /\ result' = "None"
    /\ SetPal(model_py_reset_casting_time(Pal))
    /\ UNCHANGED book_vars
    /\ UNCHANGED engine_vars
    /\ UNCHANGED tracking_vars
    /\ UNCHANGED history_vars

\* a call of update_casting_time(dt)
ModelPyUpdateCastingTime ==
    \E dt \in Dts :
        /\ ticks < MaxTicks
        /\ op' = "update_casting_time"
        /\ arg' = dt
        /\ result' = "None"
        /\ SetPal(model_py_update_casting_time(Pal, Fixed(dt)))
        /\ ticks' = Tick(dt)
        /\ UNCHANGED <<cast_slot, cast_elapsed, cd_elapsed>>
        /\ UNCHANGED book_vars
        /\ UNCHANGED engine_vars
        /\ UNCHANGED tracking_vars

ModelPyNext ==
    \/ ModelPyTriggerEvent
    \/ ModelPyResetCastingTime
    \/ ModelPyUpdateCastingTime

ModelPySpec == ModelPyInit /\ [][ModelPyNext]_vars

----------------------------------------------------------------------------
(* controller.py and view/graphics.py: the running game.  The controller   *)
(* turns key and mouse input into events by the state on top of the stack, *)
(* and the view's handlers act on the character by the same test.  An      *)
(* event the controller posts is taken to its handler within the step.     *)

\* the most spells with a ProjectileSprite in one game
MaxSprites == 1

\* Bindings.select_palette_item of the controller
SelectKeys == <<"K_1", "K_2", "K_3", "K_4">>

\* the keys some binding of the controller names
Keys == {"K_ESCAPE", "K_TAB", "K_F1", "K_1", "K_2", "K_3", "K_4"}

\* the index of a key counted from 1 instead of 0
key_index_one_based(key) ==
    CHOOSE i \in 1..Len(SelectKeys) : SelectKeys[i] = key

\* self.bindings.select_palette_item.index(event.key)
key_index(key) ==
    (CHOOSE i \in 1..Len(SelectKeys) : SelectKeys[i] = key) - 1

\* the event a key press posts by the state on top of the stack: key_down_menu,
\* key_down_help, key_down_play and key_down_intro (whose test compares the
\* key with a list and never holds)
key_down(top, key) ==
    CASE top = "STATE_MENU" /\ key = "K_ESCAPE" ->
            [type |-> "QuitEvent", state |-> "None", item |-> 0]
      [] top = "STATE_MENU" /\ key = "K_TAB" ->
            [type |-> "StateChangeEvent", state |-> "None", item |-> 0]
      [] top = "STATE_HELP" /\ key \in {"K_ESCAPE", "K_F1"} ->
            [type |-> "StateChangeEvent", state |-> "None", item |-> 0]
      [] top = "STATE_PLAY" /\ key = "K_TAB" ->
            [type |-> "StateChangeEvent", state |-> "STATE_MENU", item |-> 0]
      [] top = "STATE_PLAY" /\ key = "K_F1" ->
            [type |-> "StateChangeEvent", state |-> "STATE_HELP", item |-> 0]
      [] top = "STATE_PLAY" /\ key \in {SelectKeys[i] : i \in 1..Len(SelectKeys)} ->
            [type |-> "PaletteSelectEvent", state |-> "None", item |-> key_index(key)]
      [] OTHER ->
            [type |-> "None", state |-> "None", item |-> 0]

\* GraphicalView.trigger_cast_event: a sprite of the active item's spell is
\* added when character.cast() answers True
trigger_cast_event(p, sprites, ispell) ==
    LET r == cast(p) IN
    IF r.ret
    THEN [pal |-> r.pal, sprites |-> sprites \cup {ispell[ActivePos(r.pal)]},
          ret |-> "True"]
    ELSE [pal |-> r.pal, sprites |-> sprites, ret |-> "False"]

\* _handle_cast_event taking the menu for play as well
handle_cast_event_menu(top, p, sprites, ispell) ==
    IF top \in {"STATE_PLAY", "STATE_MENU"}
    THEN trigger_cast_event(p, sprites, ispell)
    ELSE [pal |-> p, sprites |-> sprites, ret |-> "None"]

\* GraphicalView._handle_cast_event
handle_cast_event(top, p, sprites, ispell) ==
    IF top = "STATE_PLAY"
    THEN trigger_cast_event(p, sprites, ispell)
    ELSE [pal |-> p, sprites |-> sprites, ret |-> "None"]

\* GraphicalView._handle_palette_select_event and trigger_palette_switch_event
handle_palette_select_event(top, p, item) ==
    IF top = "STATE_PLAY" THEN select_palette_item(p, item) ELSE p

\* PaletteSprite._manage_timers: the same clock.get_time() to both timers
manage_timers(p, dt) ==
    update_cooldowns(update_casting_time(p, dt), dt)

\* _handle_tick_event updating the palette sprite in the menu as well
handle_tick_event_menu(top, p, dt) ==
    IF top \in {"STATE_PLAY", "STATE_MENU"} THEN manage_timers(p, dt) ELSE p

\* GraphicalView._handle_tick_event, the palette's part: only render_play
\* updates the ui sprites, and with them the PaletteSprite
handle_tick_event(top, p, dt) ==
    IF top = "STATE_PLAY" THEN manage_timers(p, dt) ELSE p

\* the palette items after the trackers of their spells changed
SyncItems(its, projs, ispell) ==
    [i \in 1..Len(its) |-> [its[i] EXCEPT !.spell = SpellOf(projs[ispell[i]])]]

\* what a step of the game leaves alone
GameFrame ==
    /\ UNCHANGED history_vars
    /\ UNCHANGED tracking_vars

\* a press of a menu or help key taken by the controller while the game
\* runs.  The QuitEvent or StateChangeEvent it posts is heard by
\* GameEngine.notify within the step; the PaletteSelectEvent of the other keys
\* is heard by the view in HandlePaletteSelectEvent
KeyDown ==
    \E key \in Keys \ {SelectKeys[i] : i \in 1..Len(SelectKeys)} :
        LET top == peek(state_stack)
            event == key_down(top, key)
        IN  /\ running
            /\ op' = "key_down"
            /\ arg' = 0
            /\ result' = "None"
            /\ running' = (running /\ event.type # "QuitEvent")
            /\ posted' = <<>>
            /\ state_stack' = IF event.type = "StateChangeEvent"
                              THEN notify_state_change(state_stack, event.state).stack
                              ELSE state_stack
            /\ attack_sprites' = attack_sprites
            /\ UNCHANGED palette_vars
            /\ UNCHANGED book_vars
            /\ GameFrame

\* a press of the mouse button taken by the controller: on the title screen
\* a MouseEvent, where a press on the new-game button (pressed) starts a new
\* game and asks for STATE_PLAY; in play a CastEvent, which the view hears in
\* HandleCastEvent
MouseButtonDown ==
    \E pressed \in BOOLEAN :
        LET top == peek(state_stack) IN
        /\ running
        /\ op' = "mouse_button_down"
        /\ arg' = 0
        /\ result' = "None"
        /\ running' = running
        /\ IF top = "STATE_INTRO" /\ pressed
           THEN /\ projectiles' = new_character.projectiles
                /\ spell_book' = new_character.spell_book
                /\ item_spell' = new_character.item_spell
                /\ SetPal([items |-> [i \in 1..Len(new_character.item_spell) |->
                                        PaletteItem(SpellOf(new_character.projectiles[
                                            new_character.item_spell[i]]))],
                           current_item_index |-> 0,
                           casting_time |-> 0])
                /\ attack_sprites' = {}
                /\ posted' = <<>>
                /\ state_stack' = notify_state_change(state_stack, "STATE_PLAY").stack
           ELSE /\ posted' = <<>>
                /\ attack_sprites' = attack_sprites
                /\ state_stack' = state_stack
                /\ UNCHANGED palette_vars
                /\ UNCHANGED book_vars
        /\ GameFrame

\* the view hears a CastEvent, whatever state is on top by then
HandleCastEvent ==
    LET r == handle_cast_event(peek(state_stack), Pal, attack_sprites, item_spell) IN
    /\ running
    /\ Cardinality(r.sprites) <= MaxSprites
    /\ op' = "handle_cast_event"
    /\ arg' = 0
    /\ SetPal(r.pal)
    /\ attack_sprites' = r.sprites
    /\ result' = r.ret
    /\ posted' = <<>>
    /\ UNCHANGED book_vars
    /\ UNCHANGED <<state_stack, running>>
    /\ GameFrame

\* the view hears a PaletteSelectEvent of the controller, whatever state is
\* on top by then
HandlePaletteSelectEvent ==
    \E key \in {SelectKeys[i] : i \in 1..Len(SelectKeys)} :
        /\ running
        /\ op' = "handle_palette_select_event"
        /\ arg' = key_index(key)
        /\ SetPal(handle_palette_select_event(peek(state_stack), Pal, key_index(key)))
        /\ attack_sprites' = attack_sprites
        /\ result' = "None"
        /\ posted' = <<>>
        /\ UNCHANGED book_vars
        /\ UNCHANGED <<state_stack, running>>
        /\ GameFrame

\* the frames followed: a frame of 0 ms or of a whole cast is taken at any
\* time, a frame in between only over the first MaxTicks ms of a cast or
\* while no cast is in progress
FrameFollowed(dt) ==
    \/ dt = 0
    \/ Fixed(dt) >= casting_time
    \/ casting_time - Fixed(dt) >=
          TimesWhole(base_value["CAST_TIME"], 1000) - Fixed(MaxTicks)

\* the view hears a TickEvent: in play render_play updates the sprites, where
\* a sprite of the spell source (0: none) newly overlaps an enemy and hands an
\* event to the DAMAGE tracker of its source, and then the PaletteSprite,
\* which takes dt = clock.get_time() off the timers
HandleTickEvent ==
    \E dt \in Dts, source \in {0} \cup attack_sprites :
        LET top == peek(state_stack)
            struck == top = "STATE_PLAY" /\ source > 0
        IN  /\ running
            /\ FrameFollowed(dt)
            /\ top # "STATE_PLAY" => source = 0
            /\ struck => projectiles[source].attributes["DAMAGE"].events < MaxHits
            /\ op' = "handle_tick_event"
            /\ arg' = dt
            /\ result' = "None"
            /\ posted' = <<>>
            /\ projectiles' = IF struck
                              THEN trigger_damage_event(projectiles, source)
                              ELSE projectiles
            /\ UNCHANGED <<spell_book, item_spell>>
            /\ SetPal(handle_tick_event(top,
                        [Pal EXCEPT !.items = SyncItems(items, projectiles', item_spell)],
                        Fixed(dt)))
            /\ attack_sprites' = attack_sprites
            /\ UNCHANGED <<state_stack, running>>
            /\ UNCHANGED history_vars
            /\ UNCHANGED tracking_vars

GameNext ==
    \/ Run
    \/ KeyDown
    \/ MouseButtonDown
    \/ HandleCastEvent
    \/ HandlePaletteSelectEvent
    \/ HandleTickEvent

GameSpec == EngineInit /\ [][GameNext]_vars

----------------------------------------------------------------------------
(* Properties.  In the action properties the unprimed variables are the    *)
(* state a call starts from, op' names the call and result' is its outcome. *)

\* C1: while casting_time is above 0, cast_active_spell() and
\* can_cast_active_spell() answer False whichever slot is active, also when
\* the active item's own cooldown is 0.
C1_GlobalCastLock ==
    [][ ( /\ op' \in {"cast_active_spell", "can_cast_active_spell"}
          /\ IndexValid(Pal)
          /\ casting_time > 0 )
        => result' = "False" ]_vars

\* C1 witness: a cast was refused on a slot other than the one being cast,
\* whose own cooldown is 0, because the shared casting time is still running.
C1_Witness ==
    /\ op = "cast_active_spell"
    /\ result = "False"
    /\ IndexValid(Pal)
    /\ casting_time > 0
    /\ ActivePos(Pal) # cast_slot
    /\ items[ActivePos(Pal)].cooldown = 0

\* C2: can_cast_active_spell() answers True exactly when the active item's
\* cooldown is <= 0 and the casting time is <= 0, and it changes no field of
\* the palette.
C2_CanCastIsPureQuery ==
    [][ ( /\ op' = "can_cast_active_spell"
          /\ IndexValid(Pal) )
        => /\ (result' = "True") <=>
                  ( items[ActivePos(Pal)].cooldown <= 0 /\ casting_time <= 0 )
           /\ result' \in {"True", "False"}
           /\ UNCHANGED palette_vars ]_vars

\* C2 witness: the query answered True again after an earlier cast.
C2_Witness ==
    /\ op = "can_cast_active_spell"
    /\ result = "True"
    /\ cast_slot # 0

\* C3: a cast attempted while the active spell cannot be cast returns False
\* and leaves every cooldown, the casting time and the active index as they
\* were.
C3_RejectedCastChangesNothing ==
    [][ ( /\ op' = "cast_active_spell"
          /\ IndexValid(Pal)
          /\ ~ ( items[ActivePos(Pal)].cooldown <= 0 /\ casting_time <= 0 ) )
        => /\ result' = "False"
           /\ UNCHANGED palette_vars ]_vars

\* C3 witness: a cast was refused while the active item was on cooldown.
C3_Witness ==
    /\ op = "cast_active_spell"
    /\ result = "False"
    /\ IndexValid(Pal)
    /\ items[ActivePos(Pal)].cooldown > 0

\* C4: a cast attempted while the active spell can be cast returns True, sets
\* the active item's cooldown to the value reset_cooldown() gives it, sets the
\* casting time to the active spell's CAST_TIME * 1000, and leaves the active
\* index, every spell and every other item's cooldown unchanged.
C4_PermittedCastCommitsTimers ==
    [][ ( /\ op' = "cast_active_spell"
          /\ IndexValid(Pal)
          /\ items[ActivePos(Pal)].cooldown <= 0
          /\ casting_time <= 0 )
        => LET a == ActivePos(Pal) IN
           /\ result' = "True"
           /\ items'[a].cooldown = effective_value("COOLDOWN", items[a].spell["COOLDOWN"])
           /\ casting_time' = effective_value("CAST_TIME", items[a].spell["CAST_TIME"]) * 1000
           /\ current_item_index' = current_item_index
           /\ \A j \in 1..NumItems : items'[j].spell = items[j].spell
           /\ \A j \in 1..NumItems : j # a => items'[j] = items[j] ]_vars

\* C4 witness: a cast succeeded while another item was still on cooldown and
\* the cast spell's COOLDOWN and CAST_TIME trackers were at different levels.
C4_Witness ==
    /\ op = "cast_active_spell"
    /\ result = "True"
    /\ items[cast_slot].spell["COOLDOWN"] # items[cast_slot].spell["CAST_TIME"]
    /\ \E j \in 1..NumItems : j # cast_slot /\ items[j].cooldown > 0

\* C5: after a successful cast, as long as no time has been handed to either
\* update operation, the query answers False and a further cast returns False.
C5_LockedRightAfterCast ==
    [][ ( /\ cast_slot # 0
          /\ cast_elapsed = 0
          /\ cd_elapsed[cast_slot] = 0
          /\ op' \in {"cast_active_spell", "can_cast_active_spell"}
          /\ IndexValid(Pal) )
        => result' = "False" ]_vars

\* C5 witness: a second cast came right after a successful one and was refused.
C5_Witness ==
    /\ cast_slot # 0
    /\ cast_elapsed = 0
    /\ cd_elapsed[cast_slot] = 0
    /\ op = "cast_active_spell"
    /\ result = "False"
    /\ ActivePos(Pal) = cast_slot

\* C6: the cast lock unwinds.  Once, since the last successful cast, the dt
\* handed to update_casting_time has summed to CAST_TIME * 1000 of the spell
\* cast, and the dt handed to update_cooldowns since the active item was last
\* cast has summed to its COOLDOWN * 1000 (or the active item was never cast),
\* can_cast_active_spell() is True (the active index being in range).
C6_CastLockUnwinds ==
    ( /\ cast_slot # 0
      /\ IndexValid(Pal)
      /\ cast_elapsed >= effective_value("CAST_TIME", items[cast_slot].spell["CAST_TIME"]) * 1000
      /\ \/ cd_elapsed[ActivePos(Pal)] < 0
         \/ cd_elapsed[ActivePos(Pal)] >=
               effective_value("COOLDOWN", items[ActivePos(Pal)].spell["COOLDOWN"]) * 1000 )
    => can_cast_active_spell(Pal)

\* C6 witness: after a cast of the active item both sums have passed the
\* thresholds and the query has answered True.
C6_Witness ==
    /\ cast_slot # 0
    /\ IndexValid(Pal)
    /\ ActivePos(Pal) = cast_slot
    /\ cast_elapsed >= effective_value("CAST_TIME", items[cast_slot].spell["CAST_TIME"]) * 1000
    /\ cd_elapsed[cast_slot] >=
           effective_value("COOLDOWN", items[cast_slot].spell["COOLDOWN"]) * 1000
    /\ op = "can_cast_active_spell"
    /\ result = "True"

\* C7: a successful cast (which calls reset_cooldown() on the active item)
\* leaves that item's cooldown at the spell's COOLDOWN attribute * 1000.
C7_ResetCooldownInMilliseconds ==
    [][ ( /\ op' = "cast_active_spell"
          /\ result' = "True" )
        => items'[ActivePos(Pal)].cooldown =
              effective_value("COOLDOWN", items[ActivePos(Pal)].spell["COOLDOWN"]) * 1000 ]_vars

C9_CooldownSpacing ==
    [][ ( /\ op' = "cast_active_spell"
          /\ result' = "True"
          /\ cd_elapsed[ActivePos(Pal)] >= 0 )
        => cd_elapsed[ActivePos(Pal)] >=
              effective_value("COOLDOWN", items[ActivePos(Pal)].spell["COOLDOWN"]) * 1000 ]_vars

\* C10: a cast that follows an earlier successful cast succeeds only when the
\* dt handed to update_casting_time since that cast sums to at least
\* CAST_TIME * 1000 of the spell that was cast.
C10_CastTimeSpacing ==
    [][ ( /\ op' = "cast_active_spell"
          /\ result' = "True"
          /\ cast_slot # 0 )
        => cast_elapsed >=
              effective_value("CAST_TIME", items[cast_slot].spell["CAST_TIME"]) * 1000 ]_vars

\* C10 witness: a second cast has succeeded, on another item than the first,
\* while the first item was still on cooldown.
C10_Witness ==
    /\ op = "cast_active_spell"
    /\ result = "True"
    /\ \E j \in 1..NumItems :
          j # cast_slot /\ cd_elapsed[j] >= 0 /\ items[j].cooldown > 0

\* C11: set_active_palette_item(i) makes i the active index and leaves every
\* item (spell and cooldown) and the casting time as they were, also while a
\* cast is in progress.
C11_SwitchOnlyMovesSelection ==
    [][ op' = "set_active_palette_item"
        => /\ current_item_index' = arg'
           /\ items' = items
           /\ casting_time' = casting_time ]_vars

\* C11 witness: the slot was switched during a cast, away from the item cast,
\* and both timers are still running.
C11_Witness ==
    /\ op = "set_active_palette_item"
    /\ current_item_index = arg
    /\ cast_slot # 0
    /\ arg + 1 # cast_slot
    /\ IndexValid(Pal)
    /\ casting_time > 0
    /\ items[cast_slot].cooldown > 0

\* C12: in every reachable state every item's cooldown is >= 0.
C12_CooldownNeverNegative ==
    \A i \in 1..Len(items) : items[i].cooldown >= 0

\* C12 witness: update_cooldowns was handed more time than the cast item's
\* cooldown had left, and the cooldown stands at 0.
C12_Witness ==
    /\ op = "update_cooldowns"
    /\ cast_slot # 0
    /\ cd_elapsed[cast_slot] >
          effective_value("COOLDOWN", items[cast_slot].spell["COOLDOWN"])
    /\ items[cast_slot].cooldown = 0

\* C13: the casting time is never negative: update_casting_time(dt) lowers it
\* by dt, and a decrement that would go below zero leaves it at exactly 0.
C13_CastingTimeNeverNegative ==
    [][ /\ casting_time >= 0
        /\ casting_time' >= 0
        /\ op' = "update_casting_time"
             => casting_time' = IF casting_time - Fixed(arg') < 0
                                THEN 0
                                ELSE casting_time - Fixed(arg') ]_vars

\* C13 witness: update_casting_time was handed more time than the cast had
\* left, and the casting time stands at 0.
C13_Witness ==
    /\ op = "update_casting_time"
    /\ cast_slot # 0
    /\ cast_elapsed >
          effective_value("CAST_TIME", items[cast_slot].spell["CAST_TIME"]) * 1000
    /\ casting_time = 0

\* C14 as stated: no Palette or Character operation raises; whatever the
\* active index and however many items the palette has,
\* can_cast_active_spell(), cast_active_spell() and Character.cast() finish
\* with a boolean.
C14_NeverRaises ==
    [][ op' \in {"can_cast_active_spell", "cast_active_spell", "cast"}
        => result' \in {"True", "False"} ]_vars

\* C14 amended: can_cast_active_spell(), cast_active_spell() and
\* Character.cast() finish with a boolean exactly when the active index lies
\* in -len(items) .. len(items)-1; with any other index, and always on a
\* palette without items, they raise IndexError and leave the palette as it
\* was.
C14_RaisesIndexErrorOutOfRange ==
    [][ op' \in {"can_cast_active_spell", "cast_active_spell", "cast"}
        => IF /\ current_item_index >= 0 - Len(items)
              /\ current_item_index <= Len(items) - 1
           THEN result' \in {"True", "False"}
           ELSE /\ result' = "IndexError"
                /\ items' = items
                /\ current_item_index' = current_item_index
                /\ casting_time' = casting_time ]_vars

\* C14 witness: Character.cast() raised IndexError on a palette that has
\* items, after a selection past the last item.
C14_Witness ==
    /\ op = "cast"
    /\ result = "IndexError"
    /\ Len(items) > 0
    /\ current_item_index = Len(items)

\* C15: a fresh tracker is at level 1; the level is 2 or more from exactly
\* the 10th trigger_event() on, 3 or more from exactly the 30th on, 4 or more
\* from exactly the 70th on; in general level n is reached at
\* ((2^n) - 2) * 5 events and not before.
C15_LevelingSchedule ==
    /\ tracker.events = 0 => tracker.level = 1
    /\ tracker.level >= 2 <=> tracker.events >= 10
    /\ tracker.level >= 3 <=> tracker.events >= 30
    /\ tracker.level >= 4 <=> tracker.events >= 70
    /\ \A n \in 1..8 : tracker.level >= n <=> tracker.events >= ((2^n) - 2) * 5

\* C15 witness: the 70th trigger_event() has just brought the tracker to
\* level 4.
C15_Witness ==
    /\ op = "trigger_event"
    /\ tracker.events = 70
    /\ tracker.level = 4

\* C16: in every state reached by trigger_event() calls the level is
\* floor(log2(events // 5 + 2)), the largest n with ((2^n) - 2) * 5 <= events.
C16_LevelIsFloorLog2 ==
    /\ 2^(tracker.level) <= (tracker.events \div 5) + 2
    /\ (tracker.events \div 5) + 2 < 2^(tracker.level + 1)
    /\ ((2^(tracker.level)) - 2) * 5 <= tracker.events
    /\ tracker.events < ((2^(tracker.level + 1)) - 2) * 5

\* C16 witness: one event short of a threshold, the level is still the lower
\* one.
C16_Witness ==
    /\ op = "trigger_event"
    /\ tracker.events = 29
    /\ tracker.level = 2

\* C17: events_to_next_level() is ((2^(level+1)) - 2) * 5 - events and never
\* negative; it is 10 at 0 events, 20 at 10 events and 40 at 30 events.
C17_EventsToNextLevel ==
    LET k == events_to_next_level(tracker) IN
    /\ k = ((2^(tracker.level + 1)) - 2) * 5 - tracker.events
    /\ k >= 0
    /\ tracker.events = 0 => k = 10
    /\ tracker.events = 10 => k = 20
    /\ tracker.events = 30 => k = 40

\* C17 witness: at 30 events, just arrived at level 3, 40 events are left.
C17_Witness ==
    /\ op = "trigger_event"
    /\ tracker.events = 30
    /\ events_to_next_level(tracker) = 40

\* C18: events_to_next_level() is exact: with k = events_to_next_level(), a
\* trigger_event() leaves the level as it is and k one lower while k > 1, and
\* raises the level by exactly one when k = 1; k is never below 1.
C18_EventsToNextLevelExact ==
    [][ op' = "trigger_event"
        => LET k == events_to_next_level(tracker) IN
           /\ k >= 1
           /\ IF k = 1
              THEN tracker'.level = tracker.level + 1
              ELSE /\ tracker'.level = tracker.level
                   /\ events_to_next_level(tracker') = k - 1 ]_vars

\* C18 witness: the 10th trigger_event() was the one that raised the level
\* to 2.
C18_Witness ==
    /\ op = "trigger_event"
    /\ tracker.events = 10
    /\ tracker.level = 2

\* C19: over trigger_event() calls the level is always >= 1, never decreases
\* and rises by at most 1 per call.
C19_LevelMonotone ==
    [][ /\ tracker.level >= 1
        /\ tracker'.level >= 1
        /\ op' = "trigger_event"
             => /\ tracker'.level >= tracker.level
                /\ tracker'.level <= tracker.level + 1 ]_vars

\* C19 witness: a trigger_event() right after a rise has kept the level.
C19_Witness ==
    /\ op = "trigger_event"
    /\ tracker.events = 31
    /\ tracker.level = 3

\* C20: every hit a collision pass registers raises the event count of the
\* spell's DAMAGE tracker by exactly 1, and the damage taken from the enemy is
\* the effective DAMAGE at the level the tracker has after that increment:
\* ceil(log2(level) + 1), which is 1, 2, 3, 3 at levels 1, 2, 3, 4.
C20_HitCountsOnceThenDamages ==
    [][ op' = "compute_collisions"
        => /\ tracker'.events = tracker.events + Len(hit_log')
           /\ Len(hit_log') = Cardinality(sprites_hit' \ sprites_hit)
           /\ \A i \in 1..Len(hit_log') :
                LET h == hit_log'[i] IN
                /\ h.events = tracker.events + i
                /\ 2^(h.level) <= (h.events \div 5) + 2
                /\ (h.events \div 5) + 2 < 2^(h.level + 1)
                /\ h.damage = CASE h.level = 1 -> 1000
                                 [] h.level = 2 -> 2000
                                 [] h.level = 3 -> 3000
                                 [] h.level = 4 -> 3000
                /\ enemy_hp'[h.enemy] = enemy_hp[h.enemy] - h.damage
           /\ \A e \in Enemies :
                (\A i \in 1..Len(hit_log') : hit_log'[i].enemy # e)
                    => enemy_hp'[e] = enemy_hp[e] ]_vars

\* C20 witness: a hit was the tracker's 10th event, and the enemy took the
\* damage of level 2, the level that event brought.
C20_Witness ==
    /\ op = "compute_collisions"
    /\ \E i \in 1..Len(hit_log) :
          /\ hit_log[i].events = 10
          /\ hit_log[i].level = 2
          /\ hit_log[i].damage = 2000
          /\ enemy_hp[hit_log[i].enemy] = Fixed(EnemyHp) - 2000

\* C21: for one attack, a target is hit at most once however many frames it
\* stays in collision: the attack has made exactly one hit() call on every
\* target in its sprites_hit and none on any other, a collision pass leaves
\* the health of the targets already hit alone, and the DAMAGE tracker gains
\* one event per target hit for the first time and no other.
C21_OneHitPerAttackAndTarget ==
    [][ /\ \A e \in Enemies :
             /\ attack_hits[e] = (IF e \in sprites_hit THEN 1 ELSE 0)
             /\ attack_hits'[e] = (IF e \in sprites_hit' THEN 1 ELSE 0)
        /\ op' = "compute_collisions"
             => /\ sprites_hit \subseteq sprites_hit'
                /\ \A e \in sprites_hit :
                     /\ enemy_hp'[e] = enemy_hp[e]
                     /\ \A i \in 1..Len(hit_log') : hit_log'[i].enemy # e
                /\ tracker'.events =
                     tracker.events + Cardinality(sprites_hit' \ sprites_hit)
                /\ arg' = Cardinality({e \in Enemies : enemy_hp[e] > 0})
                     => {e \in Enemies : enemy_hp[e] > 0} \subseteq sprites_hit' ]_vars

\* C21 witness: a collision pass in which every enemy still standing
\* overlapped the projectile registered no hit, as the attack had hit each
\* of them on an earlier frame.
C21_Witness ==
    /\ op = "compute_collisions"
    /\ arg >= 1
    /\ arg = Cardinality({e \in Enemies : enemy_hp[e] > 0})
    /\ hit_log = <<>>
    /\ \A e \in Enemies : enemy_hp[e] > 0 => attack_hits[e] = 1

\* C22 as stated: a Projectile has one AttributeTracking per SpellAttribute:
\* for every variant of the enumeration get_tracking(variant) returns a
\* tracker of that kind, never not-found, and the tracked kinds never change.
C22_TrackerForEveryVariant ==
    \A id \in DOMAIN projectiles :
        /\ \A a \in SpellAttributes :
             /\ get_tracking(projectiles[id], a) # None
             /\ get_tracking(projectiles[id], a).attribute = a
        /\ DOMAIN projectiles[id].attributes = SpellAttributes

\* C23: for a Character made by new_character() every palette item's
\* Projectile is the spell-book Projectile of the same position, the object
\* itself, so after any hits the DAMAGE events and level read through palette
\* slot i are those read through spell_book[i].
C23_PaletteSharesSpellBook ==
    /\ Len(item_spell) = PaletteSize
    /\ \A i \in 1..Len(item_spell) :
         /\ item_spell[i] = spell_book[i]
         /\ \E j \in 1..Len(spell_book) : item_spell[i] = spell_book[j]
         /\ get_tracking(projectiles[item_spell[i]], "DAMAGE").events
              = get_tracking(projectiles[spell_book[i]], "DAMAGE").events
         /\ get_tracking(projectiles[item_spell[i]], "DAMAGE").level
              = get_tracking(projectiles[spell_book[i]], "DAMAGE").level
         /\ items[i].spell["DAMAGE"]
              = get_tracking(projectiles[spell_book[i]], "DAMAGE").level

\* C23 witness: a hit registered through palette slot 1 (index 0) is read
\* through spell_book[0].
C23_Witness ==
    /\ op = "hit"
    /\ arg = 0
    /\ get_tracking(projectiles[spell_book[1]], "DAMAGE").events = MaxHits
    /\ get_tracking(projectiles[spell_book[2]], "DAMAGE").events = 0

\* C30: trackers level independently: a trigger_event() on one spell's DAMAGE
\* tracker adds one event there and leaves every other tracker of that spell
\* and every tracker of every other Projectile, the spell-book entries outside
\* the palette included, as it was.
C30_TrackersIndependent ==
    [][ op' = "hit"
        => LET target == item_spell[arg' + 1] IN
           /\ DOMAIN projectiles' = DOMAIN projectiles
           /\ projectiles'[target].attributes["DAMAGE"].events
                = projectiles[target].attributes["DAMAGE"].events + 1
           /\ \A id \in DOMAIN projectiles : \A a \in TrackedAttributes :
                (id # target \/ a # "DAMAGE")
                    => projectiles'[id].attributes[a] = projectiles[id].attributes[a]
           /\ \A id \in DOMAIN projectiles :
                projectiles'[id].element = projectiles[id].element ]_vars

\* C30 witness: the spell of slot 2 has taken its hits while the spell of
\* slot 1 and the last spell-book entry have none.
C30_Witness ==
    /\ op = "hit"
    /\ arg = 1
    /\ projectiles[item_spell[2]].attributes["DAMAGE"].events = MaxHits
    /\ projectiles[item_spell[1]].attributes["DAMAGE"].events = 0
    /\ projectiles[spell_book[Len(spell_book)]].attributes["DAMAGE"].events = 0
    /\ projectiles[item_spell[2]].attributes["SPEED"].events = 0

\* C24: Character.cast() is Palette.cast_active_spell() on the character's
\* palette: from the same state it returns the same boolean (or raises
\* alike) and leaves the same palette; Character.select_palette_item(i) is
\* set_active_palette_item(i).
C24_CharacterDelegatesToPalette ==
    [][ /\ op' = "cast"
             => IF current_item_index >= 0 - Len(items)
                   /\ current_item_index < Len(items)
                THEN /\ result' = Bool(cast_active_spell(Pal).ret)
                     /\ items' = cast_active_spell(Pal).pal.items
                     /\ current_item_index' = cast_active_spell(Pal).pal.current_item_index
                     /\ casting_time' = cast_active_spell(Pal).pal.casting_time
                ELSE /\ result' = "IndexError"
                     /\ UNCHANGED palette_vars
        /\ op' = "select_palette_item"
             => /\ result' = "None"
                /\ items' = set_active_palette_item(Pal, arg').items
                /\ current_item_index' = set_active_palette_item(Pal, arg').current_item_index
                /\ casting_time' = set_active_palette_item(Pal, arg').casting_time ]_vars

\* C24 witness: Character.cast() was refused during the cast that an earlier
\* Character.cast() started, after a Character.select_palette_item().
C24_Witness ==
    /\ op = "cast"
    /\ result = "False"
    /\ cast_slot # 0
    /\ casting_time > 0
    /\ ActivePos(Pal) # cast_slot
    /\ IndexValid(Pal)
    /\ items[ActivePos(Pal)].cooldown = 0

\* C25: at level 1 effective_value() is the attribute's base value in both
\* scale modes; at level 2 it is base/2 for the inverse attributes (COOLDOWN,
\* CAST_TIME) and 2*base for the logarithmic ones.
C25_EffectiveValueAtLevels1And2 ==
    LET a == tracker.attribute
        v == effective_value(a, tracker.level)
    IN  /\ tracker.level = 1 => v = base_value[a]
        /\ (tracker.level = 2 /\ a \in {"COOLDOWN", "CAST_TIME"})
              => v * 2 = base_value[a]
        /\ (tracker.level = 2 /\ a \notin {"COOLDOWN", "CAST_TIME"})
              => v = 2 * base_value[a]

\* C25 witness: a COOLDOWN tracker brought to level 2 gives half its base.
C25_Witness ==
    /\ op = "trigger_event"
    /\ tracker.attribute = "COOLDOWN"
    /\ tracker.level = 2
    /\ effective_value("COOLDOWN", tracker.level) = 1000

\* C26: effective_value() is monotonic in the level: over the levels a <= b a
\* tracker has been through, a logarithmic tracker's value at a is at most
\* its value at b (the DAMAGE ceiling applied), an inverse tracker's value at
\* a is at least its value at b.
C26_EffectiveValueMonotone ==
    \A a \in 1..tracker.level : \A b \in a..tracker.level :
        IF tracker.attribute \in {"COOLDOWN", "CAST_TIME"}
        THEN effective_value(tracker.attribute, a) >= effective_value(tracker.attribute, b)
        ELSE effective_value(tracker.attribute, a) <= effective_value(tracker.attribute, b)

\* C26 witness: a DAMAGE tracker at level 4, where the ceiling gives the
\* value of level 3 again.
C26_Witness ==
    /\ op = "trigger_event"
    /\ tracker.attribute = "DAMAGE"
    /\ tracker.level = 4
    /\ effective_value("DAMAGE", 3) = effective_value("DAMAGE", 4)
    /\ effective_value("DAMAGE", 2) < effective_value("DAMAGE", 3)

\* C27: a freshly constructed default Projectile has element NONE, every
\* tracker at level 1 with 0 events, effective DAMAGE 1, COOLDOWN 2.0 and
\* DISTANCE 10.0; a fresh Palette holding default items has active index 0,
\* no cast in progress, no cooldown running, and can_cast_active_spell()
\* answers True.
C27_Defaults ==
    [][ op = "init" =>
        LET default == Projectile(DefaultElement) IN
        /\ default.element = "NONE"
        /\ \A a \in TrackedAttributes :
             /\ get_tracking(default, a).attribute = a
             /\ get_tracking(default, a).level = 1
             /\ get_tracking(default, a).events = 0
        /\ get_attribute(SpellOf(default), "DAMAGE") = 1000
        /\ get_attribute(SpellOf(default), "COOLDOWN") = 2000
        /\ get_attribute(SpellOf(default), "DISTANCE") = 10000
        /\ (\A i \in 1..Len(items) : items[i].spell = SpellOf(default))
           => /\ current_item_index = 0
              /\ casting_time = 0
              /\ \A i \in 1..Len(items) : items[i].cooldown = 0
              /\ op' = "can_cast_active_spell" => result' = "True" ]_vars

\* C27 witness: can_cast_active_spell() has answered True on a palette of
\* default items on which nothing has been cast.
C27_Witness ==
    /\ op = "can_cast_active_spell"
    /\ result = "True"
    /\ current_item_index = 0
    /\ cast_slot = 0
    /\ ticks = 0
    /\ \A i \in 1..Len(items) : items[i].spell = SpellOf(Projectile(DefaultElement))

\* C28: after set_active_palette_item(i) with 0 <= i < len(items),
\* get_active_item_index() returns i and get_active_item() the i-th item, and
\* casts and timer updates leave both so: no operation but
\* set_active_palette_item moves the index or the items' positions.
C28_SelectionStays ==
    [][ /\ ( /\ op' = "set_active_palette_item"
             /\ arg' >= 0
             /\ arg' < Len(items) )
           => /\ get_active_item_index(Pal') = arg'
              /\ get_active_item(Pal') = items'[arg' + 1]
        /\ ( /\ op' \in {"cast_active_spell", "can_cast_active_spell",
                          "update_cooldowns", "update_casting_time"}
             /\ current_item_index >= 0
             /\ current_item_index < Len(items) )
           => /\ get_active_item_index(Pal') = get_active_item_index(Pal)
              /\ Len(items') = Len(items)
              /\ get_active_item(Pal') = items'[current_item_index + 1]
              /\ get_active_item(Pal').spell = get_active_item(Pal).spell ]_vars

\* C28 witness: index 1 was selected, its item cast, and a timer update later
\* the second item, on cooldown, is still the active one.
C28_Witness ==
    /\ op = "update_cooldowns"
    /\ arg = 1
    /\ get_active_item_index(Pal) = 1
    /\ cast_slot = 2
    /\ get_active_item(Pal) = items[2]
    /\ items[2].cooldown > 0
    /\ items[1].cooldown = 0

\* C29: update_cooldowns(dt) lowers the cooldown of every item, active or
\* not, by dt with a floor of 0 and leaves the spells, the casting time and
\* the active index alone; update_casting_time(dt) leaves every item and the
\* active index alone.
C29_TimerUpdatesFrame ==
    [][ /\ op' = "update_cooldowns"
             => /\ Len(items') = Len(items)
                /\ \A i \in 1..Len(items) :
                     /\ items'[i].cooldown =
                          (IF items[i].cooldown - Fixed(arg') > 0
                           THEN items[i].cooldown - Fixed(arg')
                           ELSE 0)
                     /\ items'[i].spell = items[i].spell
                /\ casting_time' = casting_time
                /\ current_item_index' = current_item_index
        /\ op' = "update_casting_time"
             => /\ items' = items
                /\ current_item_index' = current_item_index ]_vars

\* C29 witness: update_cooldowns(1) has lowered the cooldown of the item
\* cast, which is not the active one, during the cast.
C29_Witness ==
    /\ op = "update_cooldowns"
    /\ arg = 1
    /\ cast_slot # 0
    /\ IndexValid(Pal)
    /\ ActivePos(Pal) # cast_slot
    /\ cd_elapsed[cast_slot] = Fixed(1)
    /\ items[cast_slot].cooldown =
          effective_value("COOLDOWN", items[cast_slot].spell["COOLDOWN"]) - Fixed(1)
    /\ items[cast_slot].cooldown > 0
    /\ casting_time > 0

\* C31: in the running game only DAMAGE trackers receive events: every other
\* tracker of every spell stays at level 1 with 0 events, and the COOLDOWN and
\* CAST_TIME of every palette item's spell stay at their base values.
C31_OnlyDamageTrackersAdvance ==
    /\ \A id \in DOMAIN projectiles :
         \A a \in TrackedAttributes \ {"DAMAGE"} :
            /\ projectiles[id].attributes[a].level = 1
            /\ projectiles[id].attributes[a].events = 0
    /\ \A i \in 1..Len(items) :
         /\ get_attribute(items[i].spell, "COOLDOWN") = base_value["COOLDOWN"]
         /\ get_attribute(items[i].spell, "CAST_TIME") = base_value["CAST_TIME"]

\* C31 witness: a play tick has registered the second hit of a sprite, on the
\* DAMAGE tracker of its spell
C31_Witness ==
    /\ op = "handle_tick_event"
    /\ peek(state_stack) = "STATE_PLAY"
    /\ \E id \in attack_sprites : projectiles[id].attributes["DAMAGE"].events = 2

\* C32: in every state of the game the remaining casting time lies between 0
\* and the active spell's CAST_TIME * 1000, also after the active slot was
\* switched during a cast, so the ratio the view draws is within 0..1.
C32_CastingTimeWithinActiveCastTime ==
    items # <<>> =>
        /\ 0 <= casting_time
        /\ casting_time <=
              TimesWhole(get_attribute(get_active_item(Pal).spell, "CAST_TIME"), 1000)

\* C32 witness: during a cast, after a play tick of 1 ms, the active slot has
\* been switched to an item other than the one cast
C32_Witness ==
    /\ op = "handle_palette_select_event"
    /\ peek(state_stack) = "STATE_PLAY"
    /\ casting_time > 0
    /\ casting_time < TimesWhole(base_value["CAST_TIME"], 1000)
    /\ get_active_item(Pal).cooldown = 0
    /\ \E i \in 1..Len(items) : items[i].cooldown > 0

\* C33: a PaletteSelectEvent of the controller carries an index in 0..3, the
\* palette of a new game has exactly 4 items, and the active index is always
\* within 0..len(items)-1 once the character exists.
C33_ActiveIndexAlwaysValid ==
    /\ op = "handle_palette_select_event" => arg \in 0..3
    /\ spell_book # <<>> =>
          /\ Len(items) = 4
          /\ 0 <= current_item_index
          /\ current_item_index < Len(items)

\* C33 witness: the last key of the bindings has selected the last item
C33_Witness ==
    /\ op = "handle_palette_select_event"
    /\ arg = 3
    /\ current_item_index = 3
    /\ Len(items) = 4

\* C34: a CastEvent or PaletteSelectEvent heard while the top of the stack is
\* not STATE_PLAY leaves the palette (items, timers, active index) unchanged
\* and adds no projectile sprite.
C34_EventsActOnlyInPlay ==
    [][ (/\ op' \in {"handle_cast_event", "handle_palette_select_event"}
         /\ peek(state_stack) # "STATE_PLAY")
        => /\ items' = items
           /\ current_item_index' = current_item_index
           /\ casting_time' = casting_time
           /\ attack_sprites' = attack_sprites
      ]_vars

\* C34 witness: a CastEvent heard in the menu was dropped although the palette
\* could have cast
C34_Witness ==
    /\ op = "handle_cast_event"
    /\ result = "None"
    /\ peek(state_stack) = "STATE_MENU"
    /\ can_cast_active_spell(Pal)
    /\ attack_sprites = {}

\* C35: a timer goes down only in a tick heard while the top of the stack is
\* STATE_PLAY; such a tick lowers the casting time and every cooldown by the
\* same dt, each with a floor of 0, and a tick heard in another state leaves
\* them as they are.
C35_TimersAdvanceOnlyInPlay ==
    [][ /\ (op' = "handle_tick_event" /\ peek(state_stack) = "STATE_PLAY")
            => /\ casting_time' = IF casting_time - Fixed(arg') > 0
                                  THEN casting_time - Fixed(arg') ELSE 0
               /\ Len(items') = Len(items)
               /\ \A i \in 1..Len(items) :
                     items'[i].cooldown = IF items[i].cooldown - Fixed(arg') > 0
                                          THEN items[i].cooldown - Fixed(arg') ELSE 0
        /\ (op' = "handle_tick_event" /\ peek(state_stack) # "STATE_PLAY")
            => /\ casting_time' = casting_time
               /\ items' = items
        /\ (\/ casting_time' < casting_time
            \/ \E i \in 1..Len(items) :
                  i <= Len(items') /\ items'[i].cooldown < items[i].cooldown)
            => (op' = "handle_tick_event" /\ peek(state_stack) = "STATE_PLAY")
      ]_vars

\* C35 witness: a play tick of 1 ms has lowered both the casting time and the
\* cooldown of the item cast by 1 ms
C35_Witness ==
    /\ op = "handle_tick_event"
    /\ arg = 1
    /\ peek(state_stack) = "STATE_PLAY"
    /\ casting_time = TimesWhole(base_value["CAST_TIME"], 1000) - Fixed(1)
    /\ \E i \in 1..Len(items) :
          items[i].cooldown = get_attribute(items[i].spell, "COOLDOWN") - Fixed(1)

\* C36: pop() removes the top of the stack and answers the state it removed,
\* so a pop() right after push(s) leaves the stack as it was before the push
\* and answers s.
C36_PopReturnsRemovedState ==
    [][ /\ (op' = "pop" /\ state_stack # <<>>) =>
              /\ state_stack' = SubSeq(state_stack, 1, Len(state_stack) - 1)
              /\ result' = state_stack[Len(state_stack)]
        /\ (op = "push" /\ op' = "pop") => result' = arg
      ]_vars

\* C37: on an empty stack peek() and pop() answer None and the stack stays
\* empty; on a stack that holds a state peek() answers the state pushed last
\* and leaves the stack as it is.
C37_EmptyStackAnswersNone ==
    [][ /\ (op' = "peek" /\ state_stack = <<>>) =>
              (result' = "None" /\ state_stack' = <<>>)
        /\ (op' = "pop" /\ state_stack = <<>>) =>
              (result' = "None" /\ state_stack' = <<>>)
        /\ (op' = "peek" /\ state_stack # <<>>) =>
              (result' = state_stack[Len(state_stack)] /\ state_stack' = state_stack)
        /\ (op = "push" /\ op' = "peek") => result' = arg
      ]_vars

\* C37 witness: a peek() on a stack of two different states has answered the
\* newer one
C37_Witness ==
    /\ op = "peek"
    /\ Len(state_stack) = 2
    /\ state_stack[1] # state_stack[2]
    /\ result = state_stack[2]

\* C38: notify with a StateChangeEvent that carries a state pushes it; with
\* one that carries none it pops one state and posts a QuitEvent exactly
\* when the stack is empty afterwards (also when it was empty already); a
\* QuitEvent sets running to False, and the loop of run() takes a turn only
\* while running is True.
C38_NotifyDrivesStackAndQuit ==
    [][ /\ (op' = "notify_StateChangeEvent" /\ arg' # "None") =>
              /\ state_stack' = Append(state_stack, arg')
              /\ posted' = <<>>
              /\ running' = running
        /\ (op' = "notify_StateChangeEvent" /\ arg' = "None") =>
              /\ state_stack' = IF state_stack = <<>> THEN <<>>
                                ELSE SubSeq(state_stack, 1, Len(state_stack) - 1)
              /\ posted' = IF state_stack' = <<>> THEN <<"QuitEvent">> ELSE <<>>
              /\ running' = running
        /\ op' = "notify_QuitEvent" =>
              (running' = FALSE /\ state_stack' = state_stack)
        /\ op' = "run_loop" => (running /\ posted' = <<"TickEvent">>)
      ]_vars

\* C38 witness: the pop of the last state has posted a QuitEvent while the
\* engine was running
C38_Witness ==
    /\ op = "notify_StateChangeEvent"
    /\ arg = "None"
    /\ state_stack = <<>>
    /\ posted = <<"QuitEvent">>
    /\ running

\* the events the doubling schedule asks for to reach level n:
\* 0, 10, 30, 70 for the levels 1 to 4
DoublingThreshold(n) == (Pow2(n) - 2) * 5

\* C39: in the model.py revision the tracker's level follows the doubling
\* schedule (level 2 from the 10th event, 3 from the 30th, 4 from the 70th)
\* and events_to_next_level() is the number of events still missing to the
\* next level.
C39_RevisionDoublingSchedule ==
    /\ DoublingThreshold(tracker.level) <= tracker.events
    /\ tracker.events < DoublingThreshold(tracker.level + 1)
    /\ model_py_events_to_next_level(tracker) =
          DoublingThreshold(tracker.level + 1) - tracker.events

\* C40: in the model.py revision the remaining casting time is never
\* negative, whatever reset_casting_time() and update_casting_time(dt >= 0)
\* calls were made.
C40_RevisionCastingTimeNotNegative ==
    casting_time >= 0

====
